---- MODULE Spec2Model ----
(***************************************************************************)
(* libuwp.h: seven functions imported from the UWP host library.           *)
(*                                                                         *)
(* The header holds declarations only, so an operation is modelled by what *)
(* its declaration lets a conforming C callee do to the caller's data:     *)
(*   - it returns what its return type says (void: no value);              *)
(*   - it may store through any pointer to non-const it has been handed,   *)
(*     in this call or in an earlier one (nothing in the header stops the  *)
(*     library keeping a pointer);                                         *)
(*   - it never stores through a pointer to const, and never touches an    *)
(*     object of the caller it was never given a non-const pointer to.     *)
(* Whether the library stores, and what, is its own business: the model    *)
(* records only which objects a call left with different contents, a       *)
(* nondeterministic choice among those it may store to.                    *)
(***************************************************************************)
EXTENDS Integers, FiniteSets, Sequences, TLC

\* Number of char arrays the caller owns.
NBuf == 2

VARIABLES
    escaped,  \* objects the library has received a pointer to non-const for
    changed,  \* objects whose contents the last call changed
    last      \* the last call: function, arguments, value returned

vars == <<escaped, changed, last>>

\* The caller's objects: its char arrays, and two ints to receive a width and
\* a height.
CharObjs == {<<"char", i>> : i \in 1..NBuf}
IntObjs == {<<"int", "w">>, <<"int", "h">>}
Objs == CharObjs \cup IntObjs

\* What a call of a void function hands back to the caller.
NoValue == "void"

\* A parameter as declared: its name, the type it points to, and whether the
\* pointee is const-qualified.
Param(n, t, c) == [name |-> n, type |-> t, const |-> c]

\* The parameter list of each declaration, in order.
Params(fn) ==
    CASE fn = "uwp_GetBundlePath"     -> << Param("buffer", "char", FALSE) >>
      [] fn = "uwp_GetBundleFilePath" -> << Param("buffer", "char", FALSE),
                                            Param("filename", "char", TRUE) >>
      [] fn = "uwp_GetScreenSize"     -> << Param("x", "int", FALSE),
                                            Param("y", "int", FALSE) >>
      [] fn = "uwp_GetTarget"         -> << Param("buffer", "char", FALSE) >>
      [] fn = "uwp_LogMessage"        -> << Param("buffer", "char", FALSE) >>
      [] fn = "uwp_PatchFolder"       -> << Param("folder", "char", FALSE) >>
      [] fn = "uwp_PickAFolder"       -> << Param("buffer", "char", FALSE) >>

\* A variant in which the folder picker reports success through a status code.
ReturnOf_status(fn) ==
    IF fn = "uwp_PickAFolder" THEN {"picked", "cancelled"} ELSE {NoValue}

\* The values a call of fn can return: every declaration returns void.
ReturnOf(fn) ==
    {NoValue}

\* The arguments passed through a pointer to non-const.
NonConstArgs(fn, a) ==
    {a[i] : i \in {j \in 1..Len(Params(fn)) : ~Params(fn)[j].const}}

\* The objects the library may store to during a call of fn with arguments a.
Writable(fn, a) ==
    escaped \cup NonConstArgs(fn, a)

\* The record of a call as the caller sees it.
Call(fn, a, r) ==
    [fn |-> fn, args |-> a, ret |-> r]

Init ==
    /\ escaped = {}
    /\ changed = {}
    /\ last = Call("none", <<>>, NoValue)

uwp_GetBundlePath ==
    \E buffer \in CharObjs, r \in ReturnOf("uwp_GetBundlePath") :
        /\ changed' \in SUBSET Writable("uwp_GetBundlePath", <<buffer>>)
        /\ escaped' = Writable("uwp_GetBundlePath", <<buffer>>)
        /\ last' = Call("uwp_GetBundlePath", <<buffer>>, r)

\* buffer and filename may be the same array: nothing in the declaration
\* forbids it.
uwp_GetBundleFilePath ==
    \E buffer \in CharObjs, filename \in CharObjs,
       r \in ReturnOf("uwp_GetBundleFilePath") :
        /\ changed' \in SUBSET Writable("uwp_GetBundleFilePath", <<buffer, filename>>)
        /\ escaped' = Writable("uwp_GetBundleFilePath", <<buffer, filename>>)
        /\ last' = Call("uwp_GetBundleFilePath", <<buffer, filename>>, r)

uwp_GetScreenSize ==
    \E x \in IntObjs, y \in IntObjs, r \in ReturnOf("uwp_GetScreenSize") :
        /\ changed' \in SUBSET Writable("uwp_GetScreenSize", <<x, y>>)
        /\ escaped' = Writable("uwp_GetScreenSize", <<x, y>>)
        /\ last' = Call("uwp_GetScreenSize", <<x, y>>, r)

uwp_GetTarget ==
    \E buffer \in CharObjs, r \in ReturnOf("uwp_GetTarget") :
        /\ changed' \in SUBSET Writable("uwp_GetTarget", <<buffer>>)
        /\ escaped' = Writable("uwp_GetTarget", <<buffer>>)
        /\ last' = Call("uwp_GetTarget", <<buffer>>, r)

uwp_LogMessage ==
    \E buffer \in CharObjs, r \in ReturnOf("uwp_LogMessage") :
        /\ changed' \in SUBSET Writable("uwp_LogMessage", <<buffer>>)
        /\ escaped' = Writable("uwp_LogMessage", <<buffer>>)
        /\ last' = Call("uwp_LogMessage", <<buffer>>, r)

uwp_PatchFolder ==
    \E folder \in CharObjs, r \in ReturnOf("uwp_PatchFolder") :
        /\ changed' \in SUBSET Writable("uwp_PatchFolder", <<folder>>)
        /\ escaped' = Writable("uwp_PatchFolder", <<folder>>)
        /\ last' = Call("uwp_PatchFolder", <<folder>>, r)

uwp_PickAFolder ==
    \E buffer \in CharObjs, r \in ReturnOf("uwp_PickAFolder") :
        /\ changed' \in SUBSET Writable("uwp_PickAFolder", <<buffer>>)
        /\ escaped' = Writable("uwp_PickAFolder", <<buffer>>)
        /\ last' = Call("uwp_PickAFolder", <<buffer>>, r)

Next ==
    \/ uwp_GetBundlePath
    \/ uwp_GetBundleFilePath
    \/ uwp_GetScreenSize
    \/ uwp_GetTarget
    \/ uwp_LogMessage
    \/ uwp_PatchFolder
    \/ uwp_PickAFolder

Spec == Init /\ [][Next]_vars

\* C2: no operation has an error outcome visible to the caller. Whatever call
\* was made last, it returned no value; the arguments it took were character
\* buffers only, or, for uwp_GetScreenSize, the two integers x and y only, so
\* none is a status output; and every object of the caller that it changed is
\* a character buffer or a screen-size integer the caller had supplied.
C2_NoErrorOutcome ==
    last.fn # "none" =>
        /\ last.ret = NoValue
        /\ IF last.fn = "uwp_GetScreenSize"
             THEN /\ Len(last.args) = 2
                  /\ \A i \in 1..2 : last.args[i] \in IntObjs
             ELSE \A i \in 1..Len(last.args) : last.args[i] \in CharObjs
        /\ changed \subseteq escaped

\* C2 witness: the folder picker has returned, having left a result in the
\* caller's buffer, and the caller got no value back.
C2_Witness ==
    /\ last.fn = "uwp_PickAFolder"
    /\ last.ret = NoValue
    /\ last.args[1] \in changed

====
